---- MODULE Spec2Model ----
(***************************************************************************)
(* Agent lifecycle of apps/backend/src/utils.ts: AgentService (the         *)
(* registry of one AgentManager per chat) and AgentManager (one tool-loop  *)
(* run with stream / generate / stop).                                     *)
(*                                                                         *)
(* One action is the code between two awaits: the scheduler is             *)
(* single-threaded and cooperative, so other requests interleave only at   *)
(* the awaits.                                                             *)
(***************************************************************************)
EXTENDS Integers, Sequences, FiniteSets, TLC

\* ------------------------------------------------------------------ bounds
MaxCalls == 2          \* AgentService.create calls in one behaviour
MaxResolveCalls == 1   \* create calls in one behaviour of SpecResolve
MaxRunCalls == 1       \* create calls in one behaviour of SpecRun
MaxRuns == 1           \* sessions that start a stream() or generate() run
MaxCtrl == 2           \* AbortController objects the callers hold
MaxChunks == 1         \* model-output chunks of one generation
MaxConfigs == 2        \* stored provider configs of one project
MaxMsgs == 3           \* messages of a list handed to _withAnthropicCache
MaxExt == 1            \* messages appended to an annotated list before it is annotated again
MaxSteps == 2          \* steps of one tool loop

\* ------------------------------------------------------------------ values
Chats == {"c1", "c2"}
Projects == {"p1", "p2"}
Providers == {"anthropic", "openai"}
Controllers == 1..MaxCtrl

\* chat.projectId of AgentChat.
ChatProject(chatId) == IF chatId = "c1" THEN "p1" ELSE "p2"
\* chat.userId of each chat.
Users == {"u1", "u2"}
ChatUser(chatId) == IF chatId = "c1" THEN "u1" ELSE "u2"

\* JavaScript undefined / null, and the empty string (both falsy).
Undefined == <<>>
EmptyString == <<"">>
Truthy(v) == v \notin {Undefined, EmptyString}

\* modelSelection?: ModelSelection, absent.
NoSelection == [provider |-> "none", modelId |-> "none"]
\* The selections a caller passes explicitly.
ExplicitSelections == {[provider |-> q, modelId |-> "custom-model"] : q \in Providers}

\* A row of the project's stored LLM configs.
StoredConfig(p, q, b) == [provider |-> q, apiKey |-> <<"stored-key", p, q>>, baseUrl |-> b]
\* getProjectLlmConfigByProvider found no row.
NoConfig == [provider |-> "none", apiKey |-> Undefined, baseUrl |-> Undefined]
StoredUrls(p, q) == {Undefined, EmptyString, <<"stored-url", p, q>>}
StoredRows(p) == UNION {{StoredConfig(p, q, b) : b \in StoredUrls(p, q)} : q \in Providers}
\* Every list of at most MaxConfigs rows, one row per provider at most.
ConfigSeqs(p) ==
    UNION {{s \in [1..n -> StoredRows(p)] :
                \A i, j \in 1..n : i # j => s[i].provider # s[j].provider}
           : n \in 0..MaxConfigs}
EnvKey(q) == <<"env-key", q>>
EnvKeyChoices(q) == {Undefined, EmptyString, EnvKey(q)}

\* The handle createProviderModel returns; NoModel stands for the thrown
\* Error('No model config found').
NoModel == [provider |-> "none", settings |-> [apiKey |-> Undefined, baseURL |-> Undefined],
            modelId |-> "none"]

VARIABLES
    storedConfigs,  \* project -> rows llmConfigQueries reads
    envKeys,        \* provider -> API key of the process environment
    calls,          \* the create calls, in the order they started
    registry,       \* AgentService._agents: chat id -> session id, 0 = no entry
    aborted,        \* the AbortControllers whose signal is aborted
    agents,         \* session id -> state of that AgentManager
    messages,       \* the rows chatQueries.upsertMessage has written
    loop            \* one message list on its way through _withAnthropicCache and the tool loop

vars == <<storedConfigs, envKeys, calls, registry, aborted, agents, messages, loop>>

\* --------------------------------------------------- collaborators (queries, env)
GetProjectLlmConfigs(projectId) == storedConfigs[projectId]

GetProjectLlmConfigByProvider(projectId, q) ==
    LET configs == storedConfigs[projectId]
        hits == {i \in 1..Len(configs) : configs[i].provider = q}
    IN  IF hits = {} THEN NoConfig
        ELSE configs[CHOOSE i \in hits : \A j \in hits : i <= j]

GetDefaultModelId(q) == IF q = "anthropic" THEN "anthropic-default" ELSE "openai-default"

GetEnvApiKey(q) == envKeys[q]

ProviderOrder == <<"anthropic", "openai">>
GetEnvModelSelections ==
    LET have == SelectSeq(ProviderOrder, LAMBDA q : Truthy(envKeys[q]))
    IN  [i \in 1..Len(have) |-> [provider |-> have[i], modelId |-> GetDefaultModelId(have[i])]]

CreateProviderModel(q, settings, modelId) ==
    [provider |-> q, settings |-> settings, modelId |-> modelId]

\* ------------------------------------------------------------ AgentService
\* Mutant: the environment tier is consulted before the stored configs.
GetResolvedModelSelectionEnvFirst(projectId, modelSelection) ==
    IF modelSelection # NoSelection THEN modelSelection
    ELSE IF Len(GetEnvModelSelections) > 0 THEN GetEnvModelSelections[1]
    ELSE LET configs == GetProjectLlmConfigs(projectId)
         IN  IF Len(configs) > 0
             THEN [provider |-> configs[1].provider,
                   modelId |-> GetDefaultModelId(configs[1].provider)]
             ELSE NoSelection

\* _getResolvedModelSelection; NoSelection stands for the thrown Error.
GetResolvedModelSelection(projectId, modelSelection) ==
    IF modelSelection # NoSelection THEN modelSelection
    ELSE LET configs == GetProjectLlmConfigs(projectId)
         IN  IF Len(configs) > 0
             THEN [provider |-> configs[1].provider,
                   modelId |-> GetDefaultModelId(configs[1].provider)]
             ELSE IF Len(GetEnvModelSelections) > 0 THEN GetEnvModelSelections[1]
             ELSE NoSelection

\* Mutant: an environment key, when there is one, replaces the stored key
\* while the stored base URL is kept.
GetModelConfigBlend(projectId, modelSelection) ==
    LET config == GetProjectLlmConfigByProvider(projectId, modelSelection.provider)
        envApiKey == GetEnvApiKey(modelSelection.provider)
    IN  IF config # NoConfig
        THEN CreateProviderModel(modelSelection.provider,
                 [apiKey |-> IF Truthy(envApiKey) THEN envApiKey ELSE config.apiKey,
                  baseURL |-> IF Truthy(config.baseUrl) THEN config.baseUrl ELSE Undefined],
                 modelSelection.modelId)
        ELSE IF Truthy(envApiKey)
        THEN CreateProviderModel(modelSelection.provider,
                 [apiKey |-> envApiKey, baseURL |-> Undefined], modelSelection.modelId)
        ELSE NoModel

\* _getModelConfig; NoModel stands for the thrown Error.
GetModelConfig(projectId, modelSelection) ==
    LET config == GetProjectLlmConfigByProvider(projectId, modelSelection.provider)
        envApiKey == GetEnvApiKey(modelSelection.provider)
    IN  IF config # NoConfig
        THEN CreateProviderModel(modelSelection.provider,
                 [apiKey |-> config.apiKey,
                  baseURL |-> IF Truthy(config.baseUrl) THEN config.baseUrl ELSE Undefined],
                 modelSelection.modelId)
        ELSE IF Truthy(envApiKey)
        THEN CreateProviderModel(modelSelection.provider,
                 [apiKey |-> envApiKey, baseURL |-> Undefined], modelSelection.modelId)
        ELSE NoModel

\* The phases of a stream() run between its start and the generation's
\* terminal event.
RunningPcs == {"build", "start", "gen"}

\* AbortController.abort() on controller a: every session wired to a that is
\* in its run notes that the signal fired before the terminal event.
AbortSessions(ags, a) ==
    [s \in DOMAIN ags |->
        IF ags[s].ctrl = a /\ ags[s].pc \in RunningPcs
        THEN [ags[s] EXCEPT !.stoppedInRun = TRUE] ELSE ags[s]]

\* Mutant: _disposeAgent deletes the entry without stopping the session.
DisposeAgentNoStop(chatId) ==
    [registry |-> [registry EXCEPT ![chatId] = 0], aborted |-> aborted, agents |-> agents]

\* _disposeAgent: the map, the abort signals and the sessions after it.
DisposeAgent(chatId) ==
    LET agent == registry[chatId]
    IN  IF agent = 0
        THEN [registry |-> registry, aborted |-> aborted, agents |-> agents]
        ELSE [registry |-> [registry EXCEPT ![chatId] = 0],
              aborted |-> aborted \cup {agents[agent].ctrl},
              agents |-> AbortSessions(agents, agents[agent].ctrl)]

\* Mutant: the callback removes the entry only while it is the session's own.
OnDisposeOwnEntry(s) ==
    IF registry[agents[s].chat] = s THEN [registry EXCEPT ![agents[s].chat] = 0] ELSE registry

\* Mutant: the callback empties the map.
OnDisposeClear(s) == [c \in Chats |-> 0]

\* The callback create hands to the session: () => this._agents.delete(chat.id).
OnDispose(s) == [registry EXCEPT ![agents[s].chat] = 0]

\* new AgentManager(chat, modelConfig, resolvedModelSelection, onDispose, abortController)
NewAgentManager(chatId, model, sel, a) ==
    [chat |-> chatId, model |-> model, sel |-> sel, ctrl |-> a,
     kind |-> "none", pc |-> "idle", result |-> "undefined", error |-> "undefined",
     isAborted |-> FALSE, finishReason |-> "undefined", stopReason |-> "undefined",
     announce |-> FALSE, events |-> <<>>, chunks |-> 0, disposeCalls |-> 0,
     stoppedInRun |-> FALSE]

\* Mutant: create leaves the resident session alone until it installs the
\* new one.
CreateBeginKeepResident(chatId, a, modelSelection) ==
    /\ Len(calls) < MaxCalls
    /\ calls' = Append(calls, [chat |-> chatId, ctrl |-> a, explicit |-> modelSelection,
                               pc |-> "resolve", sel |-> NoSelection, model |-> NoModel])
    /\ UNCHANGED <<loop, storedConfigs, envKeys, registry, aborted, agents, messages>>

\* create up to its first await: _disposeAgent(chat.id), then the call of
\* _getResolvedModelSelection is awaited.
CreateBegin(chatId, a, modelSelection) ==
    /\ Len(calls) < MaxCalls
    /\ registry' = DisposeAgent(chatId).registry
    /\ aborted' = DisposeAgent(chatId).aborted
    /\ agents' = DisposeAgent(chatId).agents
    /\ calls' = Append(calls, [chat |-> chatId, ctrl |-> a, explicit |-> modelSelection,
                               pc |-> "resolve", sel |-> NoSelection, model |-> NoModel])
    /\ UNCHANGED <<loop, storedConfigs, envKeys, messages>>

\* create from the first await to the second: the selection is resolved, or
\* the call throws.
CreateResolve(k) ==
    /\ k \in 1..Len(calls)
    /\ calls[k].pc = "resolve"
    /\ LET sel == GetResolvedModelSelection(ChatProject(calls[k].chat), calls[k].explicit)
       IN  calls' = [calls EXCEPT ![k].sel = sel,
                                  ![k].pc = IF sel = NoSelection THEN "failed" ELSE "config"]
    /\ UNCHANGED <<loop, storedConfigs, envKeys, registry, aborted, agents, messages>>

\* Mutant: the session is constructed and installed whether or not a model
\* config was found.
CreateInstallAlways(k) ==
    /\ k \in 1..Len(calls)
    /\ calls[k].pc = "config"
    /\ LET model == GetModelConfig(ChatProject(calls[k].chat), calls[k].sel)
       IN  /\ calls' = [calls EXCEPT ![k].model = model,
                                     ![k].pc = IF model = NoModel THEN "failed" ELSE "done"]
           /\ agents' = agents @@
                  (k :> NewAgentManager(calls[k].chat, model, calls[k].sel, calls[k].ctrl))
           /\ registry' = [registry EXCEPT ![calls[k].chat] = k]
    /\ UNCHANGED <<loop, storedConfigs, envKeys, aborted, messages>>

\* create from the second await to its end: the model config is loaded (or
\* the call throws), the session is constructed and written into the map.
CreateInstall(k) ==
    /\ k \in 1..Len(calls)
    /\ calls[k].pc = "config"
    /\ LET model == GetModelConfig(ChatProject(calls[k].chat), calls[k].sel)
       IN  IF model = NoModel
           THEN /\ calls' = [calls EXCEPT ![k].pc = "failed"]
                /\ UNCHANGED <<registry, agents>>
           ELSE /\ calls' = [calls EXCEPT ![k].model = model, ![k].pc = "done"]
                /\ agents' = agents @@
                       (k :> NewAgentManager(calls[k].chat, model, calls[k].sel, calls[k].ctrl))
                /\ registry' = [registry EXCEPT ![calls[k].chat] = k]
    /\ UNCHANGED <<loop, storedConfigs, envKeys, aborted, messages>>

\* Mutant: stop() also runs the disposal callback.
StopAndDispose(s) ==
    /\ s \in DOMAIN agents
    /\ aborted' = aborted \cup {agents[s].ctrl}
    /\ agents' = [AbortSessions(agents, agents[s].ctrl) EXCEPT ![s].disposeCalls = @ + 1]
    /\ registry' = OnDispose(s)
    /\ UNCHANGED <<loop, storedConfigs, envKeys, calls, messages>>

\* Mutant: stop() also deletes the chat's entry of the map.
StopAndEvict(s) ==
    /\ s \in DOMAIN agents
    /\ aborted' = aborted \cup {agents[s].ctrl}
    /\ agents' = AbortSessions(agents, agents[s].ctrl)
    /\ registry' = [registry EXCEPT ![agents[s].chat] = 0]
    /\ UNCHANGED <<loop, storedConfigs, envKeys, calls, messages>>

\* AgentManager.stop(): this._abortController.abort().
Stop(s) ==
    /\ s \in DOMAIN agents
    /\ aborted' = aborted \cup {agents[s].ctrl}
    /\ agents' = AbortSessions(agents, agents[s].ctrl)
    /\ UNCHANGED <<loop, storedConfigs, envKeys, calls, registry, messages>>

\* AgentService.get: the session under chatId, 0 for undefined.
Get(chatId) == registry[chatId]

\* AgentManager.checkIsUserOwner.
CheckIsUserOwner(s, userId) == ChatUser(agents[s].chat) = userId

\* AgentManager.getModelId.
GetModelId(s) == agents[s].sel.modelId

\* ------------------------------------------------------------ AgentManager
\* What the generation primitive reports as e.finishReason / result.finishReason.
FinishReasons == {"stop"}

\* Mutant: the finish reason of the primitive is persisted even for an
\* aborted run.
StopReasonNoAbort(isAborted, finishReason) == finishReason

\* onFinish: const stopReason = e.isAborted ? 'interrupted' : e.finishReason.
StopReason(isAborted, finishReason) == IF isAborted THEN "interrupted" ELSE finishReason

\* The row upsertMessage is called with (by: the session that wrote it).
MessageRow(s) ==
    [by |-> s, chatId |-> agents[s].chat, stopReason |-> agents[s].stopReason,
     error |-> agents[s].error, llmProvider |-> agents[s].sel.provider,
     llmModelId |-> agents[s].sel.modelId]

\* The sessions that have started their run.
Started == {s \in DOMAIN agents : agents[s].kind # "none"}

\* Mutant: the data-newChat event is written whatever the option says.
StreamBeginAlwaysAnnounce(s, sendNewChatData) ==
    /\ s \in DOMAIN agents
    /\ agents[s].pc = "idle"
    /\ Cardinality(Started) < MaxRuns
    /\ agents' = [agents EXCEPT ![s].kind = "stream", ![s].pc = "build",
                      ![s].announce = sendNewChatData,
                      ![s].events = <<"data-newChat">>]
    /\ UNCHANGED <<loop, storedConfigs, envKeys, calls, registry, aborted, messages>>

\* stream(): createUIMessageStream runs execute up to its first await; the
\* data-newChat event is written when opts.sendNewChatData is set.
StreamBegin(s, sendNewChatData) ==
    /\ s \in DOMAIN agents
    /\ agents[s].pc = "idle"
    /\ Cardinality(Started) < MaxRuns
    /\ agents' = [agents EXCEPT ![s].kind = "stream", ![s].pc = "build",
                      ![s].announce = sendNewChatData,
                      ![s].events = IF sendNewChatData THEN <<"data-newChat">> ELSE <<>>]
    /\ UNCHANGED <<loop, storedConfigs, envKeys, calls, registry, aborted, messages>>

\* execute: await this._buildInitialMessages(...) returns; this._agent.stream
\* is called and awaited.
StreamBuildOk(s) ==
    /\ s \in DOMAIN agents
    /\ agents[s].pc = "build"
    /\ agents' = [agents EXCEPT ![s].pc = "start"]
    /\ UNCHANGED <<loop, storedConfigs, envKeys, calls, registry, aborted, messages>>

\* execute: _buildInitialMessages throws; onError records the error and the
\* stream ends with an error event, result never assigned.
StreamBuildThrow(s) ==
    /\ s \in DOMAIN agents
    /\ agents[s].pc = "build"
    /\ agents' = [agents EXCEPT ![s].pc = "finish", ![s].error = "build-error",
                                ![s].events = Append(@, "error")]
    /\ UNCHANGED <<loop, storedConfigs, envKeys, calls, registry, aborted, messages>>

\* execute: result = await this._agent.stream(...); writer.merge(...).
StreamAgentOk(s) ==
    /\ s \in DOMAIN agents
    /\ agents[s].pc = "start"
    /\ agents' = [agents EXCEPT ![s].pc = "gen", ![s].result = "defined"]
    /\ UNCHANGED <<loop, storedConfigs, envKeys, calls, registry, aborted, messages>>

\* execute: await this._agent.stream(...) rejects; onError records the error,
\* result never assigned.
StreamAgentThrow(s) ==
    /\ s \in DOMAIN agents
    /\ agents[s].pc = "start"
    /\ agents' = [agents EXCEPT ![s].pc = "finish", ![s].error = "agent-error",
                                ![s].events = Append(@, "error")]
    /\ UNCHANGED <<loop, storedConfigs, envKeys, calls, registry, aborted, messages>>

\* The merged stream forwards one chunk of model output.
StreamChunk(s) ==
    /\ s \in DOMAIN agents
    /\ agents[s].pc = "gen"
    /\ agents[s].ctrl \notin aborted
    /\ agents[s].chunks < MaxChunks
    /\ agents' = [agents EXCEPT ![s].chunks = @ + 1, ![s].events = Append(@, "output")]
    /\ UNCHANGED <<loop, storedConfigs, envKeys, calls, registry, aborted, messages>>

\* The generation ends normally with finish reason r.
StreamGenFinish(s, r) ==
    /\ s \in DOMAIN agents
    /\ agents[s].pc = "gen"
    /\ agents[s].ctrl \notin aborted
    /\ agents' = [agents EXCEPT ![s].pc = "finish", ![s].finishReason = r,
                                ![s].events = Append(@, "finish")]
    /\ UNCHANGED <<loop, storedConfigs, envKeys, calls, registry, aborted, messages>>

\* The generation fails; onError records the error; the primitive reports
\* the finish reason r, or none.
StreamGenError(s, r) ==
    /\ s \in DOMAIN agents
    /\ agents[s].pc = "gen"
    /\ agents[s].ctrl \notin aborted
    /\ agents' = [agents EXCEPT ![s].pc = "finish", ![s].finishReason = r,
                                ![s].error = "generation-error",
                                ![s].events = Append(@, "error")]
    /\ UNCHANGED <<loop, storedConfigs, envKeys, calls, registry, aborted, messages>>

\* The generation observes the aborted signal (abortSignal:
\* this._abortController.signal) and ends: e.isAborted, whatever finish
\* reason r the primitive reports besides.
StreamGenAbort(s, r) ==
    /\ s \in DOMAIN agents
    /\ agents[s].pc = "gen"
    /\ agents[s].ctrl \in aborted
    /\ agents' = [agents EXCEPT ![s].pc = "finish", ![s].finishReason = r,
                                ![s].isAborted = TRUE,
                                ![s].events = Append(@, "abort")]
    /\ UNCHANGED <<loop, storedConfigs, envKeys, calls, registry, aborted, messages>>

\* onFinish up to its first await: the stop reason, then result.totalUsage,
\* a TypeError when result was never assigned.
StreamOnFinish(s) ==
    /\ s \in DOMAIN agents
    /\ agents[s].pc = "finish"
    /\ agents' = [agents EXCEPT
                      ![s].stopReason = StopReason(agents[s].isAborted, agents[s].finishReason),
                      ![s].pc = IF agents[s].result = "undefined" THEN "crashed" ELSE "usage"]
    /\ UNCHANGED <<loop, storedConfigs, envKeys, calls, registry, aborted, messages>>

\* onFinish: await result.totalUsage returns; chatQueries.upsertMessage is
\* called and awaited.
StreamUsage(s) ==
    /\ s \in DOMAIN agents
    /\ agents[s].pc = "usage"
    /\ agents' = [agents EXCEPT ![s].pc = "upsert"]
    /\ UNCHANGED <<loop, storedConfigs, envKeys, calls, registry, aborted, messages>>

\* onFinish: the write is done; this._onDispose().
StreamUpsertOk(s) ==
    /\ s \in DOMAIN agents
    /\ agents[s].pc = "upsert"
    /\ messages' = Append(messages, MessageRow(s))
    /\ registry' = OnDispose(s)
    /\ agents' = [agents EXCEPT ![s].pc = "done", ![s].disposeCalls = @ + 1]
    /\ UNCHANGED <<loop, storedConfigs, envKeys, calls, aborted>>

\* onFinish: upsertMessage rejects, and onFinish with it.
StreamUpsertFail(s) ==
    /\ s \in DOMAIN agents
    /\ agents[s].pc = "upsert"
    /\ agents' = [agents EXCEPT ![s].pc = "crashed"]
    /\ UNCHANGED <<loop, storedConfigs, envKeys, calls, registry, aborted, messages>>

\* generate() up to its first await (_buildInitialMessages).
GenerateBegin(s) ==
    /\ s \in DOMAIN agents
    /\ agents[s].pc = "idle"
    /\ Cardinality(Started) < MaxRuns
    /\ agents' = [agents EXCEPT ![s].kind = "generate", ![s].pc = "gbuild"]
    /\ UNCHANGED <<loop, storedConfigs, envKeys, calls, registry, aborted, messages>>

\* generate(): the messages are built; this._agent.generate is awaited.
GenerateBuildOk(s) ==
    /\ s \in DOMAIN agents
    /\ agents[s].pc = "gbuild"
    /\ agents' = [agents EXCEPT ![s].pc = "ggen"]
    /\ UNCHANGED <<loop, storedConfigs, envKeys, calls, registry, aborted, messages>>

\* generate(): _buildInitialMessages throws, and generate with it.
GenerateBuildThrow(s) ==
    /\ s \in DOMAIN agents
    /\ agents[s].pc = "gbuild"
    /\ agents' = [agents EXCEPT ![s].pc = "threw", ![s].error = "build-error"]
    /\ UNCHANGED <<loop, storedConfigs, envKeys, calls, registry, aborted, messages>>

\* generate(): the primitive returns; usage, cost, finishReason ?? 'stop';
\* this._onDispose(); the result is returned.
GenerateReturn(s, r) ==
    /\ s \in DOMAIN agents
    /\ agents[s].pc = "ggen"
    /\ agents[s].ctrl \notin aborted
    /\ registry' = OnDispose(s)
    /\ agents' = [agents EXCEPT ![s].pc = "returned", ![s].result = "defined",
                                ![s].finishReason = IF r = "undefined" THEN "stop" ELSE r,
                                ![s].disposeCalls = @ + 1]
    /\ UNCHANGED <<loop, storedConfigs, envKeys, calls, aborted, messages>>

\* generate(): the primitive fails, or observes the aborted signal; the error
\* propagates to the caller.
GenerateThrow(s) ==
    /\ s \in DOMAIN agents
    /\ agents[s].pc = "ggen"
    /\ agents' = [agents EXCEPT ![s].pc = "threw",
                      ![s].error = IF agents[s].ctrl \in aborted THEN "abort-error"
                                   ELSE "generation-error"]
    /\ UNCHANGED <<loop, storedConfigs, envKeys, calls, registry, aborted, messages>>

\* ------------------------------------------------- messages and cache markers
\* CACHE_1H and CACHE_5M of agents/providers; "none": no cacheControl.
CACHE_1H == "1h"
CACHE_5M == "5m"

\* A ModelMessage: its role, its content, the anthropic cacheControl of its
\* providerOptions and whatever other provider options it carries.
ModelMessage(role, content, cacheControl, options) ==
    [role |-> role, content |-> content, cacheControl |-> cacheControl, options |-> options]

\* Every list of at most MaxMsgs messages; a message's content is its place,
\* and it comes with or without a hint and other provider options.
MessageShapes == {"system", "user"} \X {"none", CACHE_5M} \X {"none", "other-options"}
MessageLists ==
    UNION {{[i \in 1..n |-> ModelMessage(sh[i][1], i, sh[i][2], sh[i][3])] :
                sh \in [1..n -> MessageShapes]}
           : n \in 0..MaxMsgs}

\* The message the tool loop appends after a step.
ResponseMessage(content) == ModelMessage("assistant", content, "none", "none")
\* The lists of at most MaxExt such messages that follow n messages.
Extensions(n) == {[i \in 1..m |-> ResponseMessage(n + i)] : m \in 0..MaxExt}

\* { role: 'system', content: getInstructions() }
SystemMessage == ModelMessage("system", 0, "none", "none")

\* withCache: a copy of msg with cacheControl set, everything else kept.
WithCache(msg, cache) == [msg EXCEPT !.cacheControl = cache]

\* Mutant: the first message is marked whatever its role, and the last
\* message also when it is the first.
WithAnthropicCacheEnds(msgs, provider) ==
    IF provider # "anthropic" \/ Len(msgs) = 0 THEN msgs
    ELSE [idx \in 1..Len(msgs) |->
            IF idx = Len(msgs) THEN WithCache(msgs[idx], CACHE_5M)
            ELSE IF idx = 1 THEN WithCache(msgs[idx], CACHE_1H)
            ELSE msgs[idx]]

\* _withAnthropicCache.
WithAnthropicCache(msgs, provider) ==
    IF provider # "anthropic" \/ Len(msgs) = 0 THEN msgs
    ELSE [idx \in 1..Len(msgs) |->
            IF idx = 1 /\ msgs[idx].role = "system" THEN WithCache(msgs[idx], CACHE_1H)
            ELSE IF idx = Len(msgs) /\ idx # 1 THEN WithCache(msgs[idx], CACHE_5M)
            ELSE msgs[idx]]

\* Mutant: the markers are written into the caller's own messages.
ArgumentAfterCacheInPlace(msgs, provider) == WithAnthropicCache(msgs, provider)

\* The caller's list after _withAnthropicCache returned: map and the spreads
\* of withCache build new values and write to nothing.
ArgumentAfterCache(msgs, provider) == msgs

\* _buildInitialMessages, from the converted model messages on.
BuildInitialMessages(modelMessages, provider) ==
    WithAnthropicCache(<<SystemMessage>> \o modelMessages, provider)

\* Mutant: the override is built on the first step too.
PrepareStepAlways(msgs, stepNumber, provider) ==
    [override |-> TRUE, messages |-> WithAnthropicCache(msgs, provider)]

\* prepareStep of the ToolLoopAgent; override FALSE stands for undefined.
PrepareStep(msgs, stepNumber, provider) ==
    IF stepNumber = 0 THEN [override |-> FALSE, messages |-> <<>>]
    ELSE [override |-> TRUE, messages |-> WithAnthropicCache(msgs, provider)]

\* loop before anything was done with the list.
LoopIdle(input, provider) ==
    [pc |-> "idle", provider |-> provider, input |-> input, caller |-> input,
     once |-> <<>>, twice |-> <<>>, ext |-> <<>>, again |-> <<>>,
     stepNumber |-> 0, stepInput |-> <<>>,
     prepared |-> [override |-> FALSE, messages |-> <<>>], sent |-> <<>>]

\* A caller applies _withAnthropicCache to its list.
AnnotateOnce ==
    /\ loop.pc = "idle"
    /\ loop' = [loop EXCEPT !.pc = "once",
                    !.once = WithAnthropicCache(loop.caller, loop.provider),
                    !.caller = ArgumentAfterCache(loop.caller, loop.provider)]
    /\ UNCHANGED <<storedConfigs, envKeys, calls, registry, aborted, agents, messages>>

\* The caller applies it to the same list a second time.
AnnotateTwice ==
    /\ loop.pc = "once"
    /\ loop' = [loop EXCEPT !.pc = "twice",
                    !.twice = WithAnthropicCache(loop.caller, loop.provider),
                    !.caller = ArgumentAfterCache(loop.caller, loop.provider)]
    /\ UNCHANGED <<storedConfigs, envKeys, calls, registry, aborted, agents, messages>>

\* The annotated list, extended by ext, is annotated again.
AnnotateAgain(ext) ==
    /\ loop.pc = "twice"
    /\ loop' = [loop EXCEPT !.pc = "again", !.ext = ext,
                    !.again = WithAnthropicCache(loop.once \o ext, loop.provider)]
    /\ UNCHANGED <<storedConfigs, envKeys, calls, registry, aborted, agents, messages>>

\* stream() / generate(): _buildInitialMessages; the list goes to the tool
\* loop, whose step 0 is about to be prepared.
LoopBuild ==
    /\ loop.pc = "idle"
    /\ loop' = [loop EXCEPT !.pc = "step", !.stepNumber = 0,
                    !.once = BuildInitialMessages(loop.caller, loop.provider),
                    !.stepInput = BuildInitialMessages(loop.caller, loop.provider)]
    /\ UNCHANGED <<storedConfigs, envKeys, calls, registry, aborted, agents, messages>>

\* The tool loop calls prepareStep and sends the override, or without one
\* the step's messages as they are.
LoopPrepareStep ==
    /\ loop.pc = "step"
    /\ LET prepared == PrepareStep(loop.stepInput, loop.stepNumber, loop.provider)
       IN  loop' = [loop EXCEPT !.pc = "sent", !.prepared = prepared,
                        !.sent = IF prepared.override THEN prepared.messages
                                 ELSE loop.stepInput]
    /\ UNCHANGED <<storedConfigs, envKeys, calls, registry, aborted, agents, messages>>

\* The step ends with a tool call: the loop appends its response message to
\* the step's messages and goes to the next step.
LoopNextStep ==
    /\ loop.pc = "sent"
    /\ loop.stepNumber + 1 < MaxSteps
    /\ loop' = [loop EXCEPT !.pc = "step", !.stepNumber = @ + 1,
                    !.stepInput = Append(@, ResponseMessage(Len(loop.stepInput)))]
    /\ UNCHANGED <<storedConfigs, envKeys, calls, registry, aborted, agents, messages>>

\* ------------------------------------------------------------ specifications
\* Two deployments: project p1 stores an anthropic config and the environment
\* holds an openai key only; nothing is configured anywhere.
MainEnvs ==
    {[stored |-> [p \in Projects |->
                    IF p = "p1" THEN <<StoredConfig("p1", "anthropic", <<"stored-url", "p1", "anthropic">>)>>
                    ELSE <<>>],
      env |-> [q \in Providers |-> IF q = "openai" THEN EnvKey(q) ELSE Undefined]],
     [stored |-> [p \in Projects |-> <<>>],
      env |-> [q \in Providers |-> Undefined]]}

InitRest ==
    /\ calls = <<>>
    /\ registry = [c \in Chats |-> 0]
    /\ aborted = {}
    /\ agents = <<>>
    /\ messages = <<>>

\* No message list is under way.
InitLoop == loop = LoopIdle(<<>>, "openai")

Init ==
    /\ \E e \in MainEnvs : storedConfigs = e.stored /\ envKeys = e.env
    /\ InitRest
    /\ InitLoop

Selections == {NoSelection} \cup ExplicitSelections

\* A step of a session: stop(), or a step of its stream() or generate() run.
SessionStep ==
    \/ \E s \in DOMAIN agents : Stop(s)
    \/ \E s \in DOMAIN agents, b \in BOOLEAN : StreamBegin(s, b)
    \/ \E s \in DOMAIN agents : StreamBuildOk(s)
    \/ \E s \in DOMAIN agents : StreamBuildThrow(s)
    \/ \E s \in DOMAIN agents : StreamAgentOk(s)
    \/ \E s \in DOMAIN agents : StreamAgentThrow(s)
    \/ \E s \in DOMAIN agents : StreamChunk(s)
    \/ \E s \in DOMAIN agents, r \in FinishReasons : StreamGenFinish(s, r)
    \/ \E s \in DOMAIN agents, r \in {"undefined", "error"} : StreamGenError(s, r)
    \/ \E s \in DOMAIN agents, r \in {"undefined", "stop"} : StreamGenAbort(s, r)
    \/ \E s \in DOMAIN agents : StreamOnFinish(s)
    \/ \E s \in DOMAIN agents : StreamUsage(s)
    \/ \E s \in DOMAIN agents : StreamUpsertOk(s)
    \/ \E s \in DOMAIN agents : StreamUpsertFail(s)
    \/ \E s \in DOMAIN agents : GenerateBegin(s)
    \/ \E s \in DOMAIN agents : GenerateBuildOk(s)
    \/ \E s \in DOMAIN agents : GenerateBuildThrow(s)
    \/ \E s \in DOMAIN agents, r \in FinishReasons \cup {"undefined"} : GenerateReturn(s, r)
    \/ \E s \in DOMAIN agents : GenerateThrow(s)

\* Each request makes its own AbortController and passes no selection.
Next ==
    \/ \E c \in Chats : CreateBegin(c, Len(calls) + 1, NoSelection)
    \/ \E k \in 1..Len(calls) : CreateResolve(k)
    \/ \E k \in 1..Len(calls) : CreateInstall(k)
    \/ SessionStep

Spec == Init /\ [][Next]_vars

\* A create call is between its start and its end.
InFlight == \E k \in 1..Len(calls) : calls[k].pc \in {"resolve", "config"}

\* Only create calls, each completing before the next starts, and stop().
NextSeq ==
    \/ \E c \in Chats, a \in Controllers, sel \in Selections :
            ~InFlight /\ CreateBegin(c, a, sel)
    \/ \E k \in 1..Len(calls) : CreateResolve(k)
    \/ \E k \in 1..Len(calls) : CreateInstall(k)
    \/ \E s \in DOMAIN agents : Stop(s)

SpecSeq == Init /\ [][NextSeq]_vars

\* Only create calls, interleaved at their awaits, and stop().
NextCreate ==
    \/ \E c \in Chats, a \in Controllers, sel \in Selections : CreateBegin(c, a, sel)
    \/ \E k \in 1..Len(calls) : CreateResolve(k)
    \/ \E k \in 1..Len(calls) : CreateInstall(k)
    \/ \E s \in DOMAIN agents : Stop(s)

SpecCreate == Init /\ [][NextCreate]_vars

\* The resolver and the loader on every stored configuration and environment.
InitResolve ==
    /\ storedConfigs \in [Projects -> UNION {ConfigSeqs(p) : p \in Projects}]
    /\ \A p \in Projects : storedConfigs[p] \in ConfigSeqs(p)
    /\ Len(storedConfigs["p2"]) <= 1
    /\ envKeys \in [Providers -> UNION {EnvKeyChoices(q) : q \in Providers}]
    /\ \A q \in Providers : envKeys[q] \in EnvKeyChoices(q)
    /\ InitRest
    /\ InitLoop

NextResolve ==
    \/ \E c \in Chats, sel \in Selections :
            Len(calls) < MaxResolveCalls /\ CreateBegin(c, 1, sel)
    \/ \E k \in 1..Len(calls) : CreateResolve(k)
    \/ \E k \in 1..Len(calls) : CreateInstall(k)

SpecResolve == InitResolve /\ [][NextResolve]_vars

\* One session's run in full: as Next, with MaxRunCalls create calls.
NextRun ==
    \/ \E c \in Chats : Len(calls) < MaxRunCalls /\ CreateBegin(c, Len(calls) + 1, NoSelection)
    \/ \E k \in 1..Len(calls) : CreateResolve(k)
    \/ \E k \in 1..Len(calls) : CreateInstall(k)
    \/ SessionStep

SpecRun == Init /\ [][NextRun]_vars

\* A step of a session as far as the registry can tell: SessionStep with one
\* value for each input the registry never sees (the announce option, the
\* finish reason).
LifecycleStep ==
    \/ \E s \in DOMAIN agents : Stop(s)
    \/ \E s \in DOMAIN agents : StreamBegin(s, FALSE)
    \/ \E s \in DOMAIN agents : StreamBuildOk(s)
    \/ \E s \in DOMAIN agents : StreamBuildThrow(s)
    \/ \E s \in DOMAIN agents : StreamAgentOk(s)
    \/ \E s \in DOMAIN agents : StreamAgentThrow(s)
    \/ \E s \in DOMAIN agents : StreamChunk(s)
    \/ \E s \in DOMAIN agents : StreamGenFinish(s, "stop")
    \/ \E s \in DOMAIN agents : StreamGenError(s, "undefined")
    \/ \E s \in DOMAIN agents : StreamGenAbort(s, "undefined")
    \/ \E s \in DOMAIN agents : StreamOnFinish(s)
    \/ \E s \in DOMAIN agents : StreamUsage(s)
    \/ \E s \in DOMAIN agents : StreamUpsertOk(s)
    \/ \E s \in DOMAIN agents : StreamUpsertFail(s)
    \/ \E s \in DOMAIN agents : GenerateBegin(s)
    \/ \E s \in DOMAIN agents : GenerateBuildOk(s)
    \/ \E s \in DOMAIN agents : GenerateBuildThrow(s)
    \/ \E s \in DOMAIN agents : GenerateReturn(s, "stop")
    \/ \E s \in DOMAIN agents : GenerateThrow(s)

\* Registry and sessions, each create call completing before the next starts.
NextPreempt ==
    \/ \E c \in Chats : ~InFlight /\ CreateBegin(c, Len(calls) + 1, NoSelection)
    \/ \E k \in 1..Len(calls) : CreateResolve(k)
    \/ \E k \in 1..Len(calls) : CreateInstall(k)
    \/ LifecycleStep

SpecPreempt == Init /\ [][NextPreempt]_vars

\* _withAnthropicCache and prepareStep on every message list and provider.
InitAnnotate ==
    /\ storedConfigs = [p \in Projects |-> <<>>]
    /\ envKeys = [q \in Providers |-> Undefined]
    /\ InitRest
    /\ \E input \in MessageLists, provider \in Providers : loop = LoopIdle(input, provider)

NextAnnotate ==
    \/ AnnotateOnce
    \/ AnnotateTwice
    \/ \E ext \in Extensions(Len(loop.once)) : AnnotateAgain(ext)
    \/ LoopBuild
    \/ LoopPrepareStep
    \/ LoopNextStep

SpecAnnotate == InitAnnotate /\ [][NextAnnotate]_vars

\* ------------------------------------------------------------------ claims
\* The create calls made for chat c, and the sessions constructed for it.
CallsOf(c) == {k \in 1..Len(calls) : calls[k].chat = c}
SessionsOf(c) == {s \in DOMAIN agents : agents[s].chat = c}
LastCall(c) == CHOOSE k \in CallsOf(c) : \A j \in CallsOf(c) : j <= k
\* The rows session s has written.
RowsBy(s) == {i \in 1..Len(messages) : messages[i].by = s}

\* C1: after a sequence of create calls for a chat, each completing before
\* the next starts, the session the last create returned is the one resident
\* under the chat id, and every session created for the chat before it has
\* had stop() invoked: its abort signal is aborted.
C1_SequentialCreatesLeaveOneSession ==
    \A c \in Chats :
        (~InFlight /\ CallsOf(c) # {} /\ calls[LastCall(c)].pc = "done") =>
            /\ registry[c] = LastCall(c)
            /\ \A s \in SessionsOf(c) \ {LastCall(c)} : agents[s].ctrl \in aborted

\* C1 witness: two sessions were created for one chat with different abort
\* controllers, the second is resident and the first is stopped.
C1_Witness ==
    \E c \in Chats : \E s1, s2 \in SessionsOf(c) :
        /\ s1 < s2
        /\ ~InFlight
        /\ agents[s1].ctrl # agents[s2].ctrl
        /\ registry[c] = s2
        /\ agents[s1].ctrl \in aborted
        /\ agents[s2].ctrl \notin aborted

\* C2: also under create calls interleaved at their awaits, no chat ever has
\* two sessions that are not stopped.
C2_AtMostOneUnstoppedSession ==
    \A c \in Chats :
        Cardinality({s \in SessionsOf(c) : agents[s].ctrl \notin aborted}) <= 1

\* C3: a step in which a session's disposal callback runs changes no
\* registry entry but the session's own: the successor installed by a later
\* create stays resident.
C3_DisposalRemovesOnlyOwnEntry ==
    [][\A s \in DOMAIN agents :
          agents'[s].disposeCalls > agents[s].disposeCalls =>
              \A c \in Chats : registry[c] # s => registry'[c] = registry[c]]_vars

\* C4: a stream() run that has ended, whatever its outcome, has invoked the
\* disposal callback exactly once.
C4_StreamDisposesExactlyOnce ==
    \A s \in DOMAIN agents :
        (agents[s].kind = "stream" /\ agents[s].pc \in {"done", "crashed"}) =>
            agents[s].disposeCalls = 1

\* C5: a generate() call that has ended, by returning or by throwing, has
\* invoked the disposal callback exactly once.
C5_GenerateDisposesExactlyOnce ==
    \A s \in DOMAIN agents :
        (agents[s].kind = "generate" /\ agents[s].pc \in {"returned", "threw"}) =>
            agents[s].disposeCalls = 1

C7_OneWriteBeforeDisposal ==
    \A s \in DOMAIN agents :
        agents[s].kind = "stream" =>
            /\ agents[s].pc \in {"done", "crashed"} => Cardinality(RowsBy(s)) = 1
            /\ \A i \in RowsBy(s) :
                   /\ messages[i].llmProvider = agents[s].sel.provider
                   /\ messages[i].llmModelId = agents[s].sel.modelId
            /\ RowsBy(s) # {} => agents[s].pc \notin RunningPcs \cup {"idle"}
            /\ agents[s].disposeCalls > 0 => RowsBy(s) # {}

\* C8: a create call that failed for want of a model selection or a model
\* config constructed no session and left no entry of its own in the map;
\* every session that exists has a selection and a config, so the failure is
\* never met in a run.
C8_FailedCreateRegistersNothing ==
    /\ \A k \in 1..Len(calls) :
           calls[k].pc = "failed" =>
               k \notin DOMAIN agents /\ \A c \in Chats : registry[c] # k
    /\ \A s \in DOMAIN agents : agents[s].sel # NoSelection /\ agents[s].model # NoModel

\* C8 witness: one create failed loading the config of an explicit selection
\* while another create's session is resident.
C8_Witness ==
    \E k \in 1..Len(calls) :
        /\ calls[k].pc = "failed"
        /\ calls[k].sel # NoSelection
        /\ \E c \in Chats : registry[c] # 0

\* The first provider, in the environment's order, that has a usable key.
FirstEnvProvider ==
    ProviderOrder[CHOOSE i \in 1..Len(ProviderOrder) :
                      /\ Truthy(envKeys[ProviderOrder[i]])
                      /\ \A j \in 1..(i - 1) : ~Truthy(envKeys[ProviderOrder[j]])]

\* C9: the resolved selection is the explicit one when given; else the
\* provider of the project's first stored config with its default model;
\* else the first environment selection; else the call fails. With a stored
\* config for A only and an environment key for B only, A is returned.
C9_ResolutionTierOrder ==
    \A k \in 1..Len(calls) :
        calls[k].pc # "resolve" =>
            LET explicit == calls[k].explicit
                stored == storedConfigs[ChatProject(calls[k].chat)]
                sel == calls[k].sel
                anyEnv == \E q \in Providers : Truthy(envKeys[q])
            IN  /\ explicit # NoSelection => sel = explicit
                /\ (explicit = NoSelection /\ Len(stored) > 0) =>
                       /\ sel.provider = stored[1].provider
                       /\ sel.modelId = GetDefaultModelId(stored[1].provider)
                /\ (explicit = NoSelection /\ Len(stored) = 0 /\ anyEnv) =>
                       /\ sel.provider = FirstEnvProvider
                       /\ sel.modelId = GetDefaultModelId(FirstEnvProvider)
                /\ (explicit = NoSelection /\ Len(stored) = 0 /\ ~anyEnv) =>
                       sel = NoSelection /\ calls[k].pc = "failed"
                /\ \A qa, qb \in Providers :
                       (/\ qa # qb /\ explicit = NoSelection
                        /\ Len(stored) = 1 /\ stored[1].provider = qa
                        /\ Truthy(envKeys[qb]) /\ ~Truthy(envKeys[qa])) =>
                           sel.provider = qa

\* C9 witness: with a stored config for anthropic only and an environment key
\* for openai only, a call without explicit selection resolved to anthropic.
C9_Witness ==
    \E k \in 1..Len(calls) :
        /\ calls[k].pc # "resolve"
        /\ calls[k].explicit = NoSelection
        /\ Len(storedConfigs[ChatProject(calls[k].chat)]) = 1
        /\ storedConfigs[ChatProject(calls[k].chat)][1].provider = "anthropic"
        /\ Truthy(envKeys["openai"]) /\ ~Truthy(envKeys["anthropic"])
        /\ calls[k].sel.provider = "anthropic"

\* The stored rows of call k's project for the provider it selected.
RowsFor(k) ==
    LET stored == storedConfigs[ChatProject(calls[k].chat)]
    IN  {stored[i] : i \in {j \in 1..Len(stored) : stored[j].provider = calls[k].sel.provider}}

\* C10: the loaded config carries the stored key, and the stored base URL if
\* one is set, whenever the project stores a config for the provider; the
\* environment key and no base URL only when it stores none; a stored URL
\* never goes with an environment key; with neither source the call fails.
C10_ConfigSourcePrecedence ==
    \A k \in 1..Len(calls) :
        (calls[k].pc \in {"done", "failed"} /\ calls[k].sel # NoSelection) =>
            LET settings == calls[k].model.settings
                envApiKey == envKeys[calls[k].sel.provider]
            IN  /\ \A row \in RowsFor(k) :
                       /\ calls[k].pc = "done"
                       /\ settings.apiKey = row.apiKey
                       /\ settings.baseURL = IF Truthy(row.baseUrl) THEN row.baseUrl ELSE Undefined
                /\ (RowsFor(k) = {} /\ Truthy(envApiKey)) =>
                       /\ calls[k].pc = "done"
                       /\ settings.apiKey = envApiKey
                       /\ settings.baseURL = Undefined
                /\ (RowsFor(k) = {} /\ ~Truthy(envApiKey)) => calls[k].pc = "failed"
                /\ calls[k].pc = "done" =>
                       /\ calls[k].model.provider = calls[k].sel.provider
                       /\ calls[k].model.modelId = calls[k].sel.modelId
                       /\ settings.apiKey = envApiKey => settings.baseURL = Undefined

\* C10 witness: the project stores a config with a base URL for the provider,
\* the environment holds a key for it too, and the stored pair was loaded.
C10_Witness ==
    \E k \in 1..Len(calls) :
        /\ calls[k].pc = "done"
        /\ Truthy(envKeys[calls[k].sel.provider])
        /\ \E row \in RowsFor(k) :
               /\ Truthy(row.baseUrl)
               /\ calls[k].model.settings = [apiKey |-> row.apiKey, baseURL |-> row.baseUrl]


\* The list went through _withAnthropicCache on its own (not through the
\* tool loop).
Annotated == loop.pc \in {"once", "twice", "again"}

\* C11: for the caching provider and a non-empty list, the first message comes
\* back with the 1h hint exactly when its role is system, the last message
\* comes back with the 5m hint exactly when it is not the first, nothing else
\* of these two messages changes, and every interior message comes back as it
\* went in.
C11_HintsOnFirstSystemAndLast ==
    (Annotated /\ loop.provider = "anthropic" /\ Len(loop.input) > 0) =>
        LET input == loop.input
            output == loop.once
            n == Len(loop.input)
        IN  /\ Len(output) = n
            /\ input[1].role = "system" =>
                    output[1] = [input[1] EXCEPT !.cacheControl = "1h"]
            /\ (input[1].role # "system" /\ n > 1) => output[1] = input[1]
            /\ n > 1 => output[n] = [input[n] EXCEPT !.cacheControl = "5m"]
            /\ (n = 1 /\ input[1].role # "system") => output[1] = input[1]
            /\ \A i \in 2..(n - 1) : output[i] = input[i]

\* A system message with other provider options, an interior message and a
\* last message, none with a hint before, have been annotated.
C11_Witness ==
    /\ loop.pc = "once"
    /\ loop.provider = "anthropic"
    /\ Len(loop.input) = 3
    /\ loop.input[1].role = "system"
    /\ loop.input[1].options = "other-options"
    /\ \A i \in 1..3 : loop.input[i].cacheControl = "none"
    /\ loop.once[1].cacheControl = "1h"
    /\ loop.once[3].cacheControl = "5m"

NoHints(msgs) == \A i \in 1..Len(msgs) : msgs[i].cacheControl = "none"

\* The messages of msgs that carry a hint are at most a first system message
\* and the last message.
HintsOnlyOnEnds(msgs) ==
    \A i \in 1..Len(msgs) :
        msgs[i].cacheControl # "none" =>
            \/ i = 1 /\ msgs[i].role = "system"
            \/ i = Len(msgs)

\* C13: when a list without hints was annotated and the result, as it is or
\* extended by the messages of later steps, is annotated again, the only
\* messages with a hint are a first system message and the current last
\* message; the last message of the earlier application has none any more.
C13_ReapplicationDoesNotCompound ==
    (loop.pc = "again" /\ loop.provider = "anthropic" /\ NoHints(loop.input)) =>
        HintsOnlyOnEnds(loop.again)

\* C20: at step 0 prepareStep gives no override and the step is sent the list
\* _buildInitialMessages built; at every later step it gives an override, and
\* the list sent is _withAnthropicCache of that step's messages for the
\* session's provider.
C20_LaterStepsAreReAnnotated ==
    /\ (loop.pc = "sent" /\ loop.stepNumber = 0) =>
            /\ ~loop.prepared.override
            /\ loop.sent = loop.once
    /\ (loop.pc = "sent" /\ loop.stepNumber > 0) =>
            /\ loop.prepared.override
            /\ loop.sent = WithAnthropicCache(loop.stepInput, loop.provider)
            /\ Len(loop.sent) = Len(loop.stepInput)
            /\ loop.provider = "anthropic" =>
                    loop.sent[Len(loop.sent)].cacheControl = "5m"
            /\ loop.provider # "anthropic" => loop.sent = loop.stepInput

\* A later step of a session of the caching provider was sent its list, whose
\* last message is the response of the step before.
C20_Witness ==
    /\ loop.pc = "sent"
    /\ loop.stepNumber = 1
    /\ loop.provider = "anthropic"
    /\ Len(loop.input) >= 1
    /\ loop.stepInput[Len(loop.stepInput)].role = "assistant"
    /\ loop.stepInput[Len(loop.stepInput)].cacheControl = "none"
    /\ loop.sent[Len(loop.sent)].cacheControl = "5m"


\* The events that end a stream: the finish event with the finish reason, the
\* error event with the error text, and the abort event of a cancelled run.
TerminalEvents == {"finish", "error", "abort"}

\* The places of the events of session s that are of one of the kinds.
EventsOf(s, kinds) == {i \in 1..Len(agents[s].events) : agents[s].events[i] \in kinds}

WriteRejected(s) == agents[s].pc = "crashed" /\ agents[s].result = "defined"

\* C15: an error raised in a stream() run, before the generation was started
\* or after, is the stream's terminal error event, and when the run is over
\* (and the database took the write) the one row of the run carries it.
C15_ErrorsAreDeliveredAndPersisted ==
    \A s \in DOMAIN agents :
        (agents[s].kind = "stream" /\ agents[s].error # "undefined") =>
            /\ agents[s].events[Len(agents[s].events)] = "error"
            /\ (agents[s].pc \in {"done", "crashed"} /\ ~WriteRejected(s)) =>
                    /\ Cardinality(RowsBy(s)) = 1
                    /\ \A i \in RowsBy(s) : messages[i].error = agents[s].error

\* C16: the row of a stream() run whose generation failed has a stop reason:
\* the generation's finish reason or, when there is none, a failure marker;
\* it is not undefined, and it is "interrupted" only when the run was
\* cancelled.
C16_FailedRunHasStopReason ==
    \A s \in DOMAIN agents :
        (agents[s].kind = "stream" /\ agents[s].error = "generation-error") =>
            \A i \in RowsBy(s) :
                /\ messages[i].stopReason # "undefined"
                /\ messages[i].stopReason = "interrupted" => agents[s].isAborted


\* What the program holds of session s: its record without the note of when
\* the signal fired.
SessionState(ags, s) == [ags[s] EXCEPT !.stoppedInRun = FALSE]

\* A step that is a stop() and nothing else: no create call moves, and an
\* abort signal fires or a running session notes one.
StopStep ==
    /\ calls' = calls
    /\ \/ aborted' # aborted
       \/ \E s \in DOMAIN agents : agents'[s].stoppedInRun # agents[s].stoppedInRun

\* C17: a stop() fires the abort signal of one session's controller and does
\* nothing else: the map, the rows and every session's state, its count of
\* disposal calls included, are as before, whether the session is running or
\* has completed; when the signal had fired already nothing changes at all.
C17_StopOnlySignals ==
    [][StopStep =>
          /\ registry' = registry
          /\ messages' = messages
          /\ DOMAIN agents' = DOMAIN agents
          /\ \A s \in DOMAIN agents : SessionState(agents', s) = SessionState(agents, s)
          /\ \E s \in DOMAIN agents : aborted' = aborted \cup {agents[s].ctrl}]_vars

\* A session completed its run, wrote its row and left the map, and was
\* stopped after that.
C17_Witness ==
    \E s \in DOMAIN agents :
        /\ agents[s].pc = "done"
        /\ ~agents[s].isAborted
        /\ agents[s].ctrl \in aborted
        /\ agents[s].disposeCalls = 1
        /\ Len(messages) = 1
        /\ messages[1].stopReason = "stop"

\* A step of create: a call starts, or a call goes on.
CreateStep == calls' # calls

\* A step in which session s calls its disposal callback.
DisposalStep(s) ==
    /\ agents'[s].disposeCalls = agents[s].disposeCalls + 1
    /\ registry' = [registry EXCEPT ![agents[s].chat] = 0]

\* C18: the map changes only in a step of create, which deletes the entry of
\* the call's chat or sets it to the call's new session, and in a step in
\* which a session calls its disposal callback, which deletes an entry; and
\* get(chatId) is undefined or a session of that chat, of which
\* checkIsUserOwner and getModelId tell the chat's user and the model id.
C18_OnlyCreateAndDisposalChangeTheMap ==
    /\ [](\A c \in Chats :
            Get(c) # 0 =>
                /\ Get(c) \in DOMAIN agents
                /\ agents[Get(c)].chat = c
                /\ \A u \in Users : CheckIsUserOwner(Get(c), u) <=> u = ChatUser(c)
                /\ GetModelId(Get(c)) = calls[Get(c)].sel.modelId)
    /\ [][registry' # registry =>
            \/ /\ CreateStep
               /\ \E k \in 1..Len(calls') :
                     \/ /\ k > Len(calls)
                        /\ registry' = [registry EXCEPT ![calls'[k].chat] = 0]
                     \/ /\ k \in DOMAIN agents' \ DOMAIN agents
                        /\ registry' = [registry EXCEPT ![calls'[k].chat] = k]
            \/ /\ ~CreateStep
               /\ \E s \in DOMAIN agents : DisposalStep(s)]_vars

\* A session was stopped and is still the entry of its chat, and the session
\* of the other chat has removed its entry itself.
C18_Witness ==
    \E s, t \in DOMAIN agents :
        /\ agents[s].ctrl \in aborted
        /\ Get(agents[s].chat) = s
        /\ agents[t].chat # agents[s].chat
        /\ agents[t].disposeCalls = 1
        /\ Get(agents[t].chat) = 0

\* Chat c is untouched by a step: its entry of the map is what it was, it has
\* the sessions it had, in the state they were in, and no signal of theirs
\* fires.
Untouched(c) ==
    /\ registry'[c] = registry[c]
    /\ \A s \in DOMAIN agents' :
          agents'[s].chat = c =>
              /\ s \in DOMAIN agents
              /\ agents'[s] = agents[s]
              /\ agents[s].ctrl \in aborted' => agents[s].ctrl \in aborted

\* C19: every step (of create, stop, a run and its errors, the disposal
\* callback) leaves all chats but one untouched: the sessions of the other
\* chats are neither stopped nor evicted nor replaced.
C19_OtherChatsUntouched ==
    [][\E a \in Chats : \A b \in Chats \ {a} : Untouched(b)]_vars

\* The session of one chat was stopped, ended interrupted and left the map;
\* the session of the other chat is resident and its signal has not fired.
C19_Witness ==
    \E s, t \in DOMAIN agents :
        /\ agents[s].isAborted
        /\ agents[s].pc = "done"
        /\ registry[agents[s].chat] = 0
        /\ agents[t].chat # agents[s].chat
        /\ registry[agents[t].chat] = t
        /\ agents[t].ctrl \notin aborted


\* C21: with create calls that do not overlap, from the moment the last
\* create call for a chat awaits its model selection, and also after it has
\* failed for want of a model config, the map has no entry for the chat and
\* every session created for the chat before has had its abort signal fired.
C21_FailedCreateHasEvicted ==
    \A c \in Chats :
        (CallsOf(c) # {} /\ calls[LastCall(c)].pc \in {"resolve", "config", "failed"}) =>
            /\ registry[c] = 0
            /\ \A s \in SessionsOf(c) : agents[s].ctrl \in aborted

\* A create for a chat succeeded, and the next create for the chat, with its
\* own abort controller, failed: the first session is stopped and the chat
\* has no entry.
C21_Witness ==
    \E c \in Chats : \E s \in SessionsOf(c) :
        /\ ~InFlight
        /\ calls[LastCall(c)].pc = "failed"
        /\ LastCall(c) = s + 1
        /\ calls[LastCall(c)].ctrl # agents[s].ctrl
        /\ agents[s].ctrl \in aborted
        /\ registry[c] = 0

====
